---- MODULE Spec2Model ----
(***************************************************************************)
(* create-endpts: the scaffolding CLI.  The model covers the two entry     *)
(* points (bin/cli.ts with --existing, and the --integration variant), the *)
(* package-manager detector, CreateCommand (create and augment workflows)  *)
(* and ViteIntegration, over an explicit file system.                      *)
(*                                                                         *)
(* A path is a sequence of names relative to process.cwd() (<<>> is the    *)
(* cwd itself).  The file system is a function from the paths that exist   *)
(* to nodes.  A string that the code inspects character by character (the  *)
(* user agent) is a sequence of one-character strings.                     *)
(***************************************************************************)
EXTENDS Integers, Sequences, FiniteSets, TLC

VARIABLES
    argv,        \* process.argv as parseArgs sees it
    env,         \* process.env.npm_config_user_agent
    nodeMajor,   \* major version of process.versions.node
    templates,   \* the bundled template tree templates/basic/typescript (read-only)
    fs,          \* the file system below process.cwd()
    cmd,         \* the command object the entry point constructed
    pc,          \* position of the process: "cli", a step name, "done", "exit"
    exitCode,    \* -1 while the process runs, then its exit code
    failedAt,    \* the step that terminated the process, "none" otherwise
    uncaught,    \* the process died of an exception no step caught
    external,    \* that step failed for a reason outside the file system state
    trace,       \* the steps started in this run, in order
    succeeded,   \* the steps of this run that returned normally, in order
    execaCalls,  \* the child processes spawned in this run
    fs0,         \* the file system when this run started
    runNo,       \* how many times the tool has been run against the project
    prevExit,    \* exit code of the previous run (-1: there was none)
    detected     \* result of the last getPkgManager() call of the detector run

vars == <<argv, env, nodeMajor, templates, fs, cmd, pc, exitCode, failedAt,
          uncaught, external, trace, succeeded, execaCalls, fs0, runNo,
          prevExit, detected>>

---------------------------------------------------------------------------
(* Bounds of the model *)

MaxScripts == 2
MaxRuns == 2
MaxAgentLen == 4

---------------------------------------------------------------------------
(* Strings as character sequences *)

Str_pnpm == <<"p", "n", "p", "m">>
Str_bun == <<"b", "u", "n">>

startsWith(s, prefix) ==
    /\ Len(s) >= Len(prefix)
    /\ SubSeq(s, 1, Len(prefix)) = prefix

---------------------------------------------------------------------------
(* Package manager detector *)

\* the detector testing only the first character for pnpm
getPkgManager_shortPrefix(e) ==
    LET userAgent == IF e.set /\ e.val # <<>> THEN e.val ELSE <<>>
    IN  IF startsWith(userAgent, <<"p">>) THEN "pnpm"
        ELSE IF startsWith(userAgent, Str_bun) THEN "bun"
        ELSE "npm"

\* process.env.npm_config_user_agent || "", then the two prefix tests
getPkgManager(e) ==
    LET userAgent == IF e.set /\ e.val # <<>> THEN e.val ELSE <<>>
    IN  IF startsWith(userAgent, Str_pnpm) THEN "pnpm"
        ELSE IF startsWith(userAgent, Str_bun) THEN "bun"
        ELSE "npm"

---------------------------------------------------------------------------
(* File-system nodes *)

Dir == [kind |-> "dir", fmt |-> "none", chunks |-> <<>>, entries |-> <<>>]

\* a text file: the chunks written or appended to it, in order
TextFile(chunks) ==
    [kind |-> "file", fmt |-> "text", chunks |-> chunks, entries |-> <<>>]

\* a file holding the JSON text of an object: its members in textual order
JsonFile(entries) ==
    [kind |-> "file", fmt |-> "object", chunks |-> <<>>, entries |-> entries]

\* a file holding the JSON text "null"
JsonNullFile ==
    [kind |-> "file", fmt |-> "null", chunks |-> <<>>, entries |-> <<>>]

\* members of a JSON object: a string value or a nested object of strings
StrMember(k, s) == [key |-> k, isObj |-> FALSE, str |-> s, obj |-> <<>>]
ObjMember(k, o) == [key |-> k, isObj |-> TRUE, str |-> "", obj |-> o]
Pair(k, s) == [key |-> k, str |-> s]

Parent(p) == SubSeq(p, 1, Len(p) - 1)
join(dir, name) == Append(dir, name)

existsSync(f, p) == p \in DOMAIN f
IsDir(f, p) == p \in DOMAIN f /\ f[p].kind = "dir"
IsFile(f, p) == p \in DOMAIN f /\ f[p].kind = "file"

\* names of the entries of directory p
readdirSync(f, p) ==
    {q[Len(q)] : q \in {r \in DOMAIN f : Len(r) = Len(p) + 1 /\ Parent(r) = p}}

\* the outcome of an operation; ext: it threw for a reason outside the
\* file system state
Ok(f) == [ok |-> TRUE, fs |-> f, ext |-> FALSE]
Err(f) == [ok |-> FALSE, fs |-> f, ext |-> FALSE]
ExtErr(f) == [ok |-> FALSE, fs |-> f, ext |-> TRUE]

\* fs.mkdirSync(p): EEXIST when p exists, ENOENT when the parent is missing
mkdirSync(f, p) ==
    IF ~existsSync(f, p) /\ IsDir(f, Parent(p))
    THEN Ok((p :> Dir) @@ f)
    ELSE Err(f)

Prefixes(p) == {SubSeq(p, 1, n) : n \in 0..Len(p)}

\* fs.mkdirSync(p, {recursive: true}): creates the missing ancestors as well,
\* fails only when a file is in the way
mkdirSyncRecursive(f, p) ==
    IF \E q \in Prefixes(p) : IsFile(f, q)
    THEN Err(f)
    ELSE Ok([q \in DOMAIN f \cup Prefixes(p) |->
                IF q \in DOMAIN f THEN f[q] ELSE Dir])

\* fs.writeFileSync(p, data): creates or replaces the file
writeFileSync(f, p, node) ==
    IF IsDir(f, Parent(p)) /\ ~IsDir(f, p)
    THEN Ok((p :> node) @@ f)
    ELSE Err(f)

\* fs.appendFileSync(p, data): creates the file when it is missing
appendFileSync(f, p, chunk) ==
    IF IsDir(f, Parent(p)) /\ ~IsDir(f, p)
    THEN Ok((p :> TextFile((IF IsFile(f, p) THEN f[p].chunks ELSE <<>>)
                             \o <<chunk>>)) @@ f)
    ELSE Err(f)

\* fs.copyFileSync(src, dest), the source being a file of the template tree
copyFileSync(tpl, src, f, dest) ==
    IF IsFile(tpl, src) THEN writeFileSync(f, dest, tpl[src]) ELSE Err(f)

---------------------------------------------------------------------------
(* JSON and JavaScript objects.  An object is the sequence of its members   *)
(* in insertion order, keys unique.                                        *)

ObjHas(o, k) == \E i \in 1..Len(o) : o[i].key = k
ObjGet(o, k) == o[CHOOSE i \in 1..Len(o) : o[i].key = k]

\* o[m.key] = m: an existing key keeps its place, a new key goes last
ObjSet(o, m) ==
    IF ObjHas(o, m.key)
    THEN [i \in 1..Len(o) |-> IF o[i].key = m.key THEN m ELSE o[i]]
    ELSE Append(o, m)

RECURSIVE ObjFromMembers(_, _)
ObjFromMembers(acc, members) ==
    IF members = <<>> THEN acc
    ELSE ObjFromMembers(ObjSet(acc, Head(members)), Tail(members))

\* JSON.parse of the text of a file: a repeated key takes its last value
ParseMember(m) ==
    IF m.isObj THEN ObjMember(m.key, ObjFromMembers(<<>>, m.obj)) ELSE m

JSONparse(node) ==
    IF node.fmt = "object"
    THEN [ok |-> TRUE, isNull |-> FALSE,
          obj |-> ObjFromMembers(<<>>, [i \in 1..Len(node.entries) |->
                                           ParseMember(node.entries[i])])]
    ELSE IF node.fmt = "null"
    THEN [ok |-> TRUE, isNull |-> TRUE, obj |-> <<>>]
    ELSE [ok |-> FALSE, isNull |-> FALSE, obj |-> <<>>]

\* JSON.stringify(obj, null, 2): the members in insertion order
JSONstringify(obj) == JsonFile(obj)

\* {...packageJson.scripts}: undefined spreads to nothing.  (A manifest whose
\* "scripts" is a string is outside the manifests the model draws.)
SpreadScripts(packageJson) ==
    IF ObjHas(packageJson, "scripts") /\ ObjGet(packageJson, "scripts").isObj
    THEN ObjGet(packageJson, "scripts").obj
    ELSE <<>>

\* the merge without the spread of the existing scripts
MergeScripts_dropOthers(packageJson) ==
    ObjSet(packageJson,
           ObjMember("scripts", <<Pair("dev:server", "endpts dev")>>))

\* packageJson.scripts = {...packageJson.scripts, "dev:server": "endpts dev"}
MergeScripts(packageJson) ==
    ObjSet(packageJson,
           ObjMember("scripts",
                     ObjSet(SpreadScripts(packageJson),
                            Pair("dev:server", "endpts dev"))))

\* the Vite variant also sets "dev:all"
DevAllCmd == "concurrently -n vite,endpts \"npm:dev\" \"npm:dev:server\""

MergeScriptsVite(packageJson) ==
    ObjSet(packageJson,
           ObjMember("scripts",
                     ObjSet(ObjSet(SpreadScripts(packageJson),
                                   Pair("dev:server", "endpts dev")),
                            Pair("dev:all", DevAllCmd))))

---------------------------------------------------------------------------
(* File-system operations of a step, run in order until one throws *)

MkdirOp(p) == [op |-> "mkdir", path |-> p, src |-> <<>>, node |-> Dir, chunk |-> ""]
MkdirpOp(p) == [op |-> "mkdirp", path |-> p, src |-> <<>>, node |-> Dir, chunk |-> ""]
WriteOp(p, n) == [op |-> "write", path |-> p, src |-> <<>>, node |-> n, chunk |-> ""]
AppendOp(p, c) == [op |-> "append", path |-> p, src |-> <<>>, node |-> Dir, chunk |-> c]
CopyOp(s, p) == [op |-> "copy", path |-> p, src |-> s, node |-> Dir, chunk |-> ""]

ApplyOp(tpl, f, o) ==
    CASE o.op = "mkdir" -> mkdirSync(f, o.path)
      [] o.op = "mkdirp" -> mkdirSyncRecursive(f, o.path)
      [] o.op = "write" -> writeFileSync(f, o.path, o.node)
      [] o.op = "append" -> appendFileSync(f, o.path, o.chunk)
      [] o.op = "copy" -> copyFileSync(tpl, o.src, f, o.path)

\* faultAt = k > 0: the k-th operation throws for a reason outside the file
\* system state (permissions, disk full); 0: none does
RECURSIVE RunOps(_, _, _, _)
RunOps(tpl, f, ops, faultAt) ==
    IF ops = <<>> THEN Ok(f)
    ELSE IF faultAt = 1 THEN ExtErr(f)
    ELSE LET r == ApplyOp(tpl, f, Head(ops))
         IN  IF ~r.ok THEN r
             ELSE RunOps(tpl, r.fs, Tail(ops),
                         IF faultAt = 0 THEN 0 ELSE faultAt - 1)

\* the name copyFiles gives a template entry at the destination
DestName(name) == IF name = "gitignore" THEN ".gitignore" ELSE name

\* copyFiles(src, dest): the operations of the recursive copy, in order
RECURSIVE CopyOps(_, _, _)
RECURSIVE CopyEntries(_, _, _, _)
CopyEntries(tpl, src, dest, names) ==
    IF names = {} THEN <<>>
    ELSE LET name == CHOOSE n \in names : TRUE
             srcPath == join(src, name)
             destPath == join(dest, DestName(name))
         IN  (IF IsDir(tpl, srcPath)
              THEN <<MkdirpOp(destPath)>> \o CopyOps(tpl, srcPath, destPath)
              ELSE <<CopyOp(srcPath, destPath)>>)
             \o CopyEntries(tpl, src, dest, names \ {name})

CopyOps(tpl, src, dest) == CopyEntries(tpl, src, dest, readdirSync(tpl, src))

---------------------------------------------------------------------------
(* Command objects *)

minMajorVersion == 18

NoCmd ==
    [kind |-> "none", name |-> "", packageManager |-> "npm",
     existing |-> FALSE, projectRootDir |-> <<>>]

\* new CreateCommand({name: positionals[0], packageManager, existing})
NewCreateCommand(positionals, pm, existing) ==
    LET name == IF positionals = <<>> \/ positionals[1] = ""
                THEN "my-api" ELSE positionals[1]
    IN  [kind |-> "CreateCommand", name |-> name, packageManager |-> pm,
         existing |-> existing,
         projectRootDir |-> IF existing THEN <<>> ELSE <<name>>]

\* new ViteIntegration({packageManager})
NewViteIntegration(pm) ==
    [kind |-> "ViteIntegration", name |-> "", packageManager |-> pm,
     existing |-> TRUE, projectRootDir |-> <<>>]

\* the steps run() awaits, in order
CreateSteps ==
    <<"createProjectDir", "writePackageJson", "copyTemplateFiles",
      "installDependencies">>
AugmentSteps ==
    <<"installDependencies", "addDevServerScript",
      "createSampleRoutesDirectory", "addGitIgnoreEntries">>
ViteSteps ==
    <<"installDependencies", "addDevServerScript",
      "createSampleRoutesDirectory", "addGitIgnoreEntries", "addEnvVars">>

StepsOf(c) ==
    IF c.kind = "ViteIntegration" THEN ViteSteps
    ELSE IF c.existing THEN AugmentSteps
    ELSE CreateSteps

IndexOf(seq, x) == CHOOSE i \in 1..Len(seq) : seq[i] = x

\* where control goes when `step` returns normally
After(c, step) ==
    LET steps == StepsOf(c)
        i == IndexOf(steps, step)
    IN  IF i = Len(steps) THEN "done" ELSE steps[i + 1]

IsAugment(c) == c.kind = "ViteIntegration" \/ (c.kind = "CreateCommand" /\ c.existing)
IsCreate(c) == c.kind = "CreateCommand" /\ ~c.existing

PackageJsonPath(c) == join(c.projectRootDir, "package.json")
RoutesPath(c) == join(c.projectRootDir, "routes")
GitIgnorePath(c) == join(c.projectRootDir, ".gitignore")

---------------------------------------------------------------------------
(* How a step ends *)

\* the failure reported, but the process not terminated: run() goes on
Fatal_noExit(step) ==
    /\ pc' = After(cmd, step)
    /\ exitCode' = IF After(cmd, step) = "done" THEN 0 ELSE exitCode
    /\ UNCHANGED <<failedAt, uncaught, succeeded>>

\* spinner.fail(...); process.exit(1)
Fatal(step) ==
    /\ pc' = "exit"
    /\ exitCode' = 1
    /\ failedAt' = step
    /\ uncaught' = FALSE
    /\ UNCHANGED succeeded

\* an exception nothing catches: the top-level await rejects, node exits 1
Throw(step) ==
    /\ pc' = "exit"
    /\ exitCode' = 1
    /\ failedAt' = step
    /\ uncaught' = TRUE
    /\ UNCHANGED succeeded

\* spinner.succeed(); the step returns and run() goes on
Succeed(step) ==
    /\ pc' = After(cmd, step)
    /\ exitCode' = IF After(cmd, step) = "done" THEN 0 ELSE exitCode
    /\ succeeded' = Append(succeeded, step)
    /\ UNCHANGED <<failedAt, uncaught>>

\* a try block: the outcome r of its operations decides how the step ends
Finish(step, r) ==
    /\ fs' = r.fs
    /\ external' = (~r.ok /\ r.ext)
    /\ IF r.ok THEN Succeed(step) ELSE Fatal(step)

\* a check of the step fails before anything is attempted
Refuse(step) ==
    /\ Fatal(step)
    /\ UNCHANGED <<fs, external>>

Start(step) ==
    /\ pc = step
    /\ trace' = Append(trace, step)

inputs == <<argv, env, nodeMajor, templates>>
history == <<fs0, runNo, prevExit, detected>>

\* console.error(...); process.exit(1) outside any step
ProcessExit(where) ==
    /\ pc' = "exit"
    /\ exitCode' = 1
    /\ failedAt' = where
    /\ uncaught' = FALSE

---------------------------------------------------------------------------
(* Entry points *)

\* `if (values.integration)`: a string option is truthy unless it is empty
IntegrationGiven(a) == a.integration.set /\ a.integration.val # ""

\* `values.existing && positionals.length !== 0`
ExistingConflict(a) == a.existing /\ Len(a.positionals) # 0

\* bin/cli.ts
CliMain ==
    /\ pc = "cli"
    /\ argv.entry = "cli"
    /\ UNCHANGED <<inputs, history, fs, external, trace, succeeded, execaCalls>>
    /\ IF nodeMajor < minMajorVersion
       THEN ProcessExit("cli") /\ UNCHANGED cmd
       ELSE IF ExistingConflict(argv)
       THEN ProcessExit("cli") /\ UNCHANGED cmd
       ELSE /\ cmd' = NewCreateCommand(argv.positionals, getPkgManager(env),
                                       argv.existing)
            /\ pc' = "run"
            /\ UNCHANGED <<exitCode, failedAt, uncaught>>

\* the entry point with --integration
CliIntegration ==
    /\ pc = "cli"
    /\ argv.entry = "integration"
    /\ UNCHANGED <<inputs, history, fs, external, trace, succeeded, execaCalls>>
    /\ IF nodeMajor < minMajorVersion
       THEN ProcessExit("cli") /\ UNCHANGED cmd
       ELSE IF IntegrationGiven(argv)
       THEN IF Len(argv.positionals) # 0
            THEN ProcessExit("cli") /\ UNCHANGED cmd
            ELSE IF argv.integration.val = "vite"
            THEN /\ cmd' = NewViteIntegration(getPkgManager(env))
                 /\ pc' = "run"
                 /\ UNCHANGED <<exitCode, failedAt, uncaught>>
            ELSE ProcessExit("cli") /\ UNCHANGED cmd
       ELSE /\ cmd' = NewCreateCommand(argv.positionals, getPkgManager(env),
                                       FALSE)
            /\ pc' = "run"
            /\ UNCHANGED <<exitCode, failedAt, uncaught>>

---------------------------------------------------------------------------
(* run() and the precondition of augment mode *)

\* CreateCommand.run
CreateCommand_run ==
    /\ pc = "run"
    /\ cmd.kind = "CreateCommand"
    /\ pc' = IF cmd.existing THEN "augmentExistingProject"
             ELSE "createProjectDir"
    /\ UNCHANGED <<inputs, history, fs, cmd, exitCode, failedAt, uncaught,
                   external, trace, succeeded, execaCalls>>

\* the precondition check left out
MissingManifest_never(f, c) == FALSE

\* `!fs.existsSync(path.join(this.projectRootDir, "package.json"))`
MissingManifest(f, c) == ~existsSync(f, PackageJsonPath(c))

\* CreateCommand.augmentExistingProject, up to its first await
augmentExistingProject ==
    /\ pc = "augmentExistingProject"
    /\ UNCHANGED <<inputs, history, fs, cmd, external, trace, succeeded,
                   execaCalls>>
    /\ IF MissingManifest(fs, cmd)
       THEN ProcessExit("precondition")
       ELSE /\ pc' = "installDependencies"
            /\ UNCHANGED <<exitCode, failedAt, uncaught>>

\* ViteIntegration.run, up to its first await
ViteIntegration_run ==
    /\ pc = "run"
    /\ cmd.kind = "ViteIntegration"
    /\ UNCHANGED <<inputs, history, fs, cmd, external, trace, succeeded,
                   execaCalls>>
    /\ IF MissingManifest(fs, cmd)
       THEN ProcessExit("precondition")
       ELSE /\ pc' = "installDependencies"
            /\ UNCHANGED <<exitCode, failedAt, uncaught>>

---------------------------------------------------------------------------
(* Steps of create mode *)

\* `fs.existsSync(root) && fs.readdirSync(root).length !== 0`
\* (evaluated only where root is not a regular file)
DirExistsNonEmpty(f, root) ==
    existsSync(f, root) /\ readdirSync(f, root) # {}

createProjectDir ==
    /\ Start("createProjectDir")
    /\ UNCHANGED <<inputs, history, cmd, execaCalls>>
    /\ IF IsFile(fs, cmd.projectRootDir)
       THEN \* readdirSync throws ENOTDIR outside the try block
            Throw("createProjectDir") /\ UNCHANGED <<fs, external>>
       ELSE IF DirExistsNonEmpty(fs, cmd.projectRootDir)
       THEN Refuse("createProjectDir")
       ELSE \E faultAt \in 0..1 :
              Finish("createProjectDir",
                     RunOps(templates, fs, <<MkdirOp(cmd.projectRootDir)>>,
                            faultAt))

NewPackageJson(c) ==
    <<StrMember("name", c.name), StrMember("type", "module"),
      StrMember("version", "1.0.0"), StrMember("private", "true"),
      ObjMember("scripts", <<Pair("dev", "endpts dev")>>)>>

writePackageJson ==
    /\ Start("writePackageJson")
    /\ UNCHANGED <<inputs, history, cmd, execaCalls>>
    /\ \E faultAt \in 0..1 :
         Finish("writePackageJson",
                RunOps(templates, fs,
                       <<WriteOp(PackageJsonPath(cmd),
                                 JSONstringify(NewPackageJson(cmd)))>>,
                       faultAt))

\* copyTemplateFiles(templates/basic/typescript, projectRootDir)
copyTemplateFiles ==
    /\ Start("copyTemplateFiles")
    /\ UNCHANGED <<inputs, history, cmd, execaCalls>>
    /\ LET ops == CopyOps(templates, <<>>, cmd.projectRootDir)
       IN  \E faultAt \in 0..Len(ops) :
             Finish("copyTemplateFiles", RunOps(templates, fs, ops, faultAt))

---------------------------------------------------------------------------
(* Dependency install *)

CreateDevDeps ==
    <<"typescript", "@types/node", "@endpts/types", "@endpts/devtools">>
ViteDevDeps ==
    <<"typescript", "@types/node", "@endpts/types", "@endpts/devtools",
      "concurrently">>

\* the Vite variant installing the list of CreateCommand
devDeps_noHelper(c) == CreateDevDeps

devDeps(c) == IF c.kind = "ViteIntegration" THEN ViteDevDeps ELSE CreateDevDeps

\* the sub-command and flags: `["install", "--D", ...devDeps]`
InstallVerb(pm) == <<"install", "--D">>

\* execa(this.packageManager, args, {cwd: this.projectRootDir})
ExecaCall(c) ==
    [file |-> c.packageManager,
     args |-> InstallVerb(c.packageManager) \o devDeps(c),
     cwd |-> c.projectRootDir]

\* the child may exit non-zero or fail to spawn
installDependencies ==
    /\ Start("installDependencies")
    /\ UNCHANGED <<inputs, history, cmd, fs>>
    /\ execaCalls' = Append(execaCalls, ExecaCall(cmd))
    /\ \E childOk \in BOOLEAN :
         /\ external' = ~childOk
         /\ IF childOk THEN Succeed("installDependencies")
            ELSE Fatal("installDependencies")

---------------------------------------------------------------------------
(* Steps of augment mode *)

MergeFor(c, packageJson) ==
    IF c.kind = "ViteIntegration" THEN MergeScriptsVite(packageJson)
    ELSE MergeScripts(packageJson)

\* read, parse, merge, rewrite; faultAt 1: the read throws, 2: the write throws
addDevServerScript ==
    /\ Start("addDevServerScript")
    /\ UNCHANGED <<inputs, history, cmd, execaCalls>>
    /\ \E faultAt \in 0..2 :
         LET path == PackageJsonPath(cmd)
             readable == IsFile(fs, path) /\ faultAt # 1
             parsed == JSONparse(fs[path])
         IN  IF ~readable
             THEN /\ Fatal("addDevServerScript")
                  /\ external' = (faultAt = 1)
                  /\ UNCHANGED fs
             ELSE IF ~parsed.ok \/ parsed.isNull
             THEN \* SyntaxError, or TypeError reading .scripts of null
                  Refuse("addDevServerScript")
             ELSE Finish("addDevServerScript",
                         RunOps(templates, fs,
                                <<WriteOp(path, JSONstringify(
                                              MergeFor(cmd, parsed.obj)))>>,
                                IF faultAt = 2 THEN 1 ELSE 0))

ReadmeText(c) ==
    IF c.kind = "ViteIntegration" THEN "routes README (vite)"
    ELSE "routes README"
GetUsersText(c) ==
    IF c.kind = "ViteIntegration" THEN "get-users route (withCors)"
    ELSE "get-users route"

\* `fs.existsSync(path.join(dest, "routes"))`
RoutesPresent(f, c) == existsSync(f, RoutesPath(c))

\* mkdirSync(routes), then the two writeFileSync calls
RoutesOps(c) ==
    <<MkdirOp(RoutesPath(c)),
      WriteOp(join(RoutesPath(c), "README.md"), TextFile(<<ReadmeText(c)>>)),
      WriteOp(join(RoutesPath(c), "get-users.ts"),
              TextFile(<<GetUsersText(c)>>))>>

\* the step without its check, reusing a routes directory that exists
createSampleRoutesDirectory_overwrite ==
    /\ Start("createSampleRoutesDirectory")
    /\ UNCHANGED <<inputs, history, cmd, execaCalls>>
    /\ LET ops == <<MkdirpOp(RoutesPath(cmd))>> \o Tail(RoutesOps(cmd))
       IN  \E faultAt \in 0..Len(ops) :
             Finish("createSampleRoutesDirectory",
                    RunOps(templates, fs, ops, faultAt))

createSampleRoutesDirectory ==
    /\ Start("createSampleRoutesDirectory")
    /\ UNCHANGED <<inputs, history, cmd, execaCalls>>
    /\ IF RoutesPresent(fs, cmd)
       THEN Refuse("createSampleRoutesDirectory")
       ELSE LET ops == RoutesOps(cmd)
            IN  \E faultAt \in 0..Len(ops) :
                  Finish("createSampleRoutesDirectory",
                         RunOps(templates, fs, ops, faultAt))

GitIgnoreBlock == "\n# endpts\n.ep\n.endpts\n"

\* the step appending without looking whether .gitignore exists
addGitIgnoreEntries_always ==
    /\ Start("addGitIgnoreEntries")
    /\ UNCHANGED <<inputs, history, cmd, execaCalls>>
    /\ LET ops == <<AppendOp(GitIgnorePath(cmd), GitIgnoreBlock)>>
       IN  \E faultAt \in 0..Len(ops) :
             Finish("addGitIgnoreEntries", RunOps(templates, fs, ops, faultAt))

addGitIgnoreEntries ==
    /\ Start("addGitIgnoreEntries")
    /\ UNCHANGED <<inputs, history, cmd, execaCalls>>
    /\ LET ops == IF existsSync(fs, GitIgnorePath(cmd))
                  THEN <<AppendOp(GitIgnorePath(cmd), GitIgnoreBlock)>>
                  ELSE <<>>
       IN  \E faultAt \in 0..Len(ops) :
             Finish("addGitIgnoreEntries", RunOps(templates, fs, ops, faultAt))

EnvCandidates == <<".env", ".env.local", ".env.development",
                   ".env.development.local">>

EnvAppendText == "\n\n# endpts\nVITE_ENDPTS_API_URL=http://localhost:3000\n"
EnvCreateText == "# endpts\nVITE_ENDPTS_API_URL=http://localhost:3000\n"

\* the search returning the last candidate present instead of the first
FindEnvFile_last(f, c) ==
    LET hits == {i \in 1..Len(EnvCandidates) :
                    existsSync(f, join(c.projectRootDir, EnvCandidates[i]))}
    IN  IF hits = {} THEN 0
        ELSE CHOOSE i \in hits : \A j \in hits : i >= j

\* [...].find((env) => fs.existsSync(path.join(root, env))): 0 when none
FindEnvFile(f, c) ==
    LET hits == {i \in 1..Len(EnvCandidates) :
                    existsSync(f, join(c.projectRootDir, EnvCandidates[i]))}
    IN  IF hits = {} THEN 0
        ELSE CHOOSE i \in hits : \A j \in hits : i <= j

addEnvVars ==
    /\ Start("addEnvVars")
    /\ UNCHANGED <<inputs, history, cmd, execaCalls>>
    /\ LET i == FindEnvFile(fs, cmd)
           ops == IF i # 0
                  THEN <<AppendOp(join(cmd.projectRootDir, EnvCandidates[i]),
                                  EnvAppendText)>>
                  ELSE <<WriteOp(join(cmd.projectRootDir, ".env"),
                                 TextFile(<<EnvCreateText>>))>>
       IN  \E faultAt \in 0..1 :
             Finish("addEnvVars", RunOps(templates, fs, ops, faultAt))

---------------------------------------------------------------------------
(* Running the tool again against the same project, same command line *)

Terminated == pc \in {"done", "exit"}

Rerun ==
    /\ Terminated
    /\ IsAugment(cmd)
    /\ runNo < MaxRuns
    /\ pc' = "cli"
    /\ cmd' = NoCmd
    /\ exitCode' = -1
    /\ failedAt' = "none"
    /\ uncaught' = FALSE
    /\ external' = FALSE
    /\ trace' = <<>>
    /\ succeeded' = <<>>
    /\ execaCalls' = <<>>
    /\ fs0' = fs
    /\ runNo' = runNo + 1
    /\ prevExit' = exitCode
    /\ UNCHANGED <<inputs, fs, detected>>

---------------------------------------------------------------------------
(* The inputs the model draws *)

\* a file system from a set of <<path, node>> pairs
FsOf(pairs) ==
    [p \in {e[1] : e \in pairs} |-> (CHOOSE e \in pairs : e[1] = p)[2]]

SeqsUpTo(S, n) == UNION {[1..k -> S] : k \in 0..n}

UserAgentUnset == [set |-> FALSE, val |-> <<>>]
UserAgent(s) == [set |-> TRUE, val |-> s]

AgentSamples ==
    {UserAgentUnset,
     UserAgent(<<"p", "n", "p", "m", "/", "8">>),
     UserAgent(<<"b", "u", "n", "/", "1">>)}

NodeMajors == {16, 18}

NoIntegration == [set |-> FALSE, val |-> ""]
Integration(v) == [set |-> TRUE, val |-> v]

PositionalSamples == {<<>>, <<"app">>}

Argvs ==
    {[entry |-> "cli", existing |-> e, integration |-> NoIntegration,
      positionals |-> ps] : e \in BOOLEAN, ps \in PositionalSamples}
    \cup
    {[entry |-> "integration", existing |-> FALSE, integration |-> i,
      positionals |-> ps] :
        i \in {NoIntegration, Integration(""), Integration("vite"),
               Integration("svelte")},
        ps \in PositionalSamples}

\* the bundled template tree, and variants that hold entries named gitignore
TemplateRoutes ==
    {<< <<>>, Dir >>,
     << <<"routes">>, Dir >>,
     << <<"routes", "users">>, Dir >>,
     << <<"routes", "users", "get_user_by_id.ts">>,
        TextFile(<<"get_user_by_id">>) >>}

TemplateSamples ==
    {FsOf(TemplateRoutes),
     FsOf(TemplateRoutes \cup
          {<< <<"gitignore">>, TextFile(<<"node_modules">>) >>,
           << <<"tsconfig.json">>, TextFile(<<"tsconfig">>) >>}),
     FsOf({<< <<>>, Dir >>,
           << <<"gitignore">>, Dir >>,
           << <<"gitignore", "gitignore">>, TextFile(<<"nested">>) >>})}

\* what is at cwd/<name> before a create run
TargetSamples(name) ==
    {FsOf({<< <<>>, Dir >>}),
     FsOf({<< <<>>, Dir >>, << <<name>>, Dir >>}),
     FsOf({<< <<>>, Dir >>, << <<name>>, Dir >>,
           << <<name, "index.ts">>, TextFile(<<"user code">>) >>}),
     FsOf({<< <<>>, Dir >>, << <<name>>, TextFile(<<"a file">>) >>})}

ScriptKeys == {"build", "dev:server", "dev:all"}
ScriptVals == {"vite", "tsc"}
ScriptTexts ==
    SeqsUpTo({Pair(k, v) : k \in ScriptKeys, v \in ScriptVals}, MaxScripts)

\* package.json texts: optional "name", optional "scripts" object
ManifestTexts ==
    {pre \o sc : pre \in {<<>>, <<StrMember("name", "web")>>},
                 sc \in {<<>>} \cup {<<ObjMember("scripts", t)>> :
                                        t \in ScriptTexts}}

PackageJsonSamples ==
    {JsonFile(m) : m \in ManifestTexts}
    \cup {TextFile(<<"not json">>), JsonNullFile}

EnvSets == SUBSET (1..Len(EnvCandidates))

\* an existing project in cwd
Project(pkgs, routes, gitignore, envs) ==
    FsOf({<< <<>>, Dir >>}
         \cup {<< <<"package.json">>, n >> : n \in pkgs}
         \cup (IF routes
               THEN {<< <<"routes">>, Dir >>,
                     << <<"routes", "index.ts">>, TextFile(<<"user route">>) >>}
               ELSE {})
         \cup (IF gitignore
               THEN {<< <<".gitignore">>, TextFile(<<"node_modules">>) >>}
               ELSE {})
         \cup {<< <<EnvCandidates[i]>>, TextFile(<<"A=1">>) >> : i \in envs})

PlainManifest == JsonFile(<<StrMember("name", "web")>>)

\* every manifest with no environment file, and every set of environment
\* files with a plain manifest or none
ProjectSamples ==
    {Project({n}, r, g, {}) :
        n \in PackageJsonSamples, r \in BOOLEAN, g \in BOOLEAN}
    \cup {Project(ns, r, g, es) :
            ns \in {{}, {PlainManifest}}, r \in BOOLEAN, g \in BOOLEAN,
            es \in EnvSets}

\* an invocation that names no project directory works on cwd as a project
AugmentInvocation(a) ==
    /\ a.positionals = <<>>
    /\ \/ a.entry = "cli" /\ a.existing
       \/ a.entry = "integration" /\ a.integration = Integration("vite")

TargetName(a) == NewCreateCommand(a.positionals, "npm", FALSE).name

Init ==
    /\ argv \in Argvs
    /\ env \in AgentSamples
    /\ nodeMajor \in NodeMajors
    /\ IF AugmentInvocation(argv)
       THEN /\ fs \in ProjectSamples
            /\ templates = FsOf(TemplateRoutes)
       ELSE /\ fs \in TargetSamples(TargetName(argv))
            /\ templates \in TemplateSamples
    /\ fs0 = fs
    /\ cmd = NoCmd
    /\ pc = "cli"
    /\ exitCode = -1
    /\ failedAt = "none"
    /\ uncaught = FALSE
    /\ external = FALSE
    /\ trace = <<>>
    /\ succeeded = <<>>
    /\ execaCalls = <<>>
    /\ runNo = 1
    /\ prevExit = -1
    /\ detected = "none"

Next ==
    \/ CliMain
    \/ CliIntegration
    \/ CreateCommand_run
    \/ augmentExistingProject
    \/ ViteIntegration_run
    \/ createProjectDir
    \/ writePackageJson
    \/ copyTemplateFiles
    \/ installDependencies
    \/ addDevServerScript
    \/ createSampleRoutesDirectory
    \/ addGitIgnoreEntries
    \/ addEnvVars
    \/ Rerun

Spec == Init /\ [][Next]_vars

---------------------------------------------------------------------------
(* The detector on every user agent over a small alphabet *)

AgentAlphabet == {"p", "n", "m", "b", "u", "/"}
AllAgents ==
    {UserAgentUnset} \cup {UserAgent(s) : s \in SeqsUpTo(AgentAlphabet, MaxAgentLen)}

InitDetector ==
    /\ env \in AllAgents
    /\ argv = [entry |-> "cli", existing |-> FALSE,
               integration |-> NoIntegration, positionals |-> <<>>]
    /\ nodeMajor = minMajorVersion
    /\ templates = FsOf(TemplateRoutes)
    /\ fs = FsOf({<< <<>>, Dir >>})
    /\ fs0 = fs
    /\ cmd = NoCmd
    /\ pc = "detect"
    /\ exitCode = -1
    /\ failedAt = "none"
    /\ uncaught = FALSE
    /\ external = FALSE
    /\ trace = <<>>
    /\ succeeded = <<>>
    /\ execaCalls = <<>>
    /\ runNo = 1
    /\ prevExit = -1
    /\ detected = "none"

Detect ==
    /\ pc = "detect"
    /\ detected' = getPkgManager(env)
    /\ pc' = "detected"
    /\ UNCHANGED <<argv, env, nodeMajor, templates, fs, cmd, exitCode,
                   failedAt, uncaught, external, trace, succeeded, execaCalls,
                   fs0, runNo, prevExit>>

NextDetector == Detect

SpecDetector == InitDetector /\ [][NextDetector]_vars

---------------------------------------------------------------------------
(* Claims *)

Root == cmd.projectRootDir

\* C1: create mode, the target path exists and holds at least one entry when
\* the run starts: the run never gets past the directory-creation step, it
\* ends there with exit code 1, and the file system stays as it was (no
\* package.json, no template file, no install).
C1_Precondition ==
    /\ IsCreate(cmd)
    /\ IsDir(fs0, Root)
    /\ readdirSync(fs0, Root) # {}

C1_NonEmptyTargetRejected ==
    C1_Precondition =>
        /\ fs = fs0
        /\ execaCalls = <<>>
        /\ pc \in {"run", "createProjectDir", "exit"}
        /\ pc = "createProjectDir" => ENABLED createProjectDir
        /\ pc = "exit" =>
              /\ exitCode = 1
              /\ failedAt = "createProjectDir"
              /\ trace = <<"createProjectDir">>

C1_Witness ==
    /\ C1_Precondition
    /\ pc = "exit"
    /\ failedAt = "createProjectDir"
    /\ ~uncaught

\* C2: create mode, the target path is missing or an empty directory, and no
\* step fails for an external reason: the run reaches Done with exit code 0,
\* and the target then holds exactly the template's entries (gitignore
\* written as .gitignore) and a package.json whose scripts.dev is
\* "endpts dev".
C2_Precondition ==
    /\ IsCreate(cmd)
    /\ \/ ~existsSync(fs0, Root)
       \/ IsDir(fs0, Root) /\ readdirSync(fs0, Root) = {}

\* a template path as it is named under the target
Renamed(p) == [i \in 1..Len(p) |-> IF p[i] = "gitignore" THEN ".gitignore" ELSE p[i]]

C2_TargetHoldsTemplate ==
    LET tplPaths == DOMAIN templates \ {<<>>}
        manifest == JSONparse(fs[PackageJsonPath(cmd)])
    IN  /\ {p \in DOMAIN fs : Len(p) > 1 /\ SubSeq(p, 1, 1) = Root}
            = {Root \o Renamed(p) : p \in tplPaths} \cup {PackageJsonPath(cmd)}
        /\ IsDir(fs, Root)
        /\ \A p \in tplPaths : fs[Root \o Renamed(p)] = templates[p]
        /\ manifest.ok
        /\ ObjHas(manifest.obj, "scripts")
        /\ ObjGet(manifest.obj, "scripts").obj = <<Pair("dev", "endpts dev")>>

C2_FreshTargetCreated ==
    (C2_Precondition /\ Terminated /\ ~external) =>
        /\ pc = "done"
        /\ exitCode = 0
        /\ C2_TargetHoldsTemplate

\* the part of C2 the code keeps: a missing target path
C2_MissingTargetCreated ==
    (C2_Precondition /\ ~existsSync(fs0, Root) /\ Terminated /\ ~external) =>
        /\ pc = "done"
        /\ exitCode = 0
        /\ C2_TargetHoldsTemplate

\* C3: augment mode (CreateCommand with existing, and ViteIntegration), no
\* package.json in the root when the run starts: the run ends with exit code
\* 1 at the precondition check, before the install is invoked and with the
\* file system as it was.
C3_Precondition ==
    /\ IsAugment(cmd)
    /\ ~existsSync(fs0, PackageJsonPath(cmd))

C3_NoManifestNoMutation ==
    C3_Precondition =>
        /\ fs = fs0
        /\ execaCalls = <<>>
        /\ trace = <<>>
        /\ pc \in {"run", "augmentExistingProject", "exit"}
        /\ pc = "exit" => exitCode = 1 /\ failedAt = "precondition"

C3_Witness ==
    /\ C3_Precondition
    /\ cmd.kind = "ViteIntegration"
    /\ pc = "exit"
    /\ FindEnvFile(fs0, cmd) # 0

\* C4: augment mode, a root with a package.json holding any manifest and no
\* routes/: after a full run the manifest's scripts are the original ones
\* with only the reserved keys ("dev:server", and "dev:all" in the Vite
\* variant) set or overwritten, every other script and every other top-level
\* key is as it was, and routes/README.md and routes/get-users.ts exist.
Keys(o) == {o[i].key : i \in 1..Len(o)}
ScriptsOf(o) == IF ObjHas(o, "scripts") THEN ObjGet(o, "scripts").obj ELSE <<>>
ReservedKeys(c) ==
    IF c.kind = "ViteIntegration" THEN {"dev:server", "dev:all"}
    ELSE {"dev:server"}
ReservedValue(k) == IF k = "dev:server" THEN "endpts dev" ELSE DevAllCmd

C4_Precondition ==
    /\ IsAugment(cmd)
    /\ IsFile(fs0, PackageJsonPath(cmd))
    /\ fs0[PackageJsonPath(cmd)].fmt = "object"
    /\ ~existsSync(fs0, RoutesPath(cmd))
    /\ pc = "done"

C4_WitnessNoScripts ==
    /\ C4_Precondition
    /\ cmd.kind = "ViteIntegration"
    /\ ~ObjHas(fs0[PackageJsonPath(cmd)].entries, "scripts")

\* C5 as stated: augment mode, routes/ exists when the run starts, the
\* package.json exists and the install succeeds: the run ends with exit code
\* 1 at the routes-scaffold step, with the install and the script merge
\* applied and in place, routes/ untouched, and the ignore-file and
\* environment-file steps never started.
InstallSucceeded == Len(succeeded) >= 1 /\ succeeded[1] = "installDependencies"
MergeSucceeded == Len(succeeded) >= 2 /\ succeeded[2] = "addDevServerScript"

C5_Precondition ==
    /\ IsAugment(cmd)
    /\ existsSync(fs0, RoutesPath(cmd))
    /\ existsSync(fs0, PackageJsonPath(cmd))
    /\ Terminated
    /\ InstallSucceeded

C5_Outcome ==
    /\ exitCode = 1
    /\ failedAt = "createSampleRoutesDirectory"
    /\ execaCalls = <<ExecaCall(cmd)>>
    /\ fs = (PackageJsonPath(cmd) :>
                JSONstringify(MergeFor(cmd,
                    JSONparse(fs0[PackageJsonPath(cmd)]).obj))) @@ fs0
    /\ \A p \in DOMAIN fs :
          (Len(p) >= Len(RoutesPath(cmd))
           /\ SubSeq(p, 1, Len(RoutesPath(cmd))) = RoutesPath(cmd))
          => p \in DOMAIN fs0 /\ fs[p] = fs0[p]
    /\ trace = <<"installDependencies", "addDevServerScript",
                 "createSampleRoutesDirectory">>

C5_AsStated == C5_Precondition => C5_Outcome

\* C5 amended: the same, for the runs whose manifest merge succeeds as well.
C5_RoutesPresentFailsAtScaffold ==
    (C5_Precondition /\ MergeSucceeded) => C5_Outcome

C5_Witness ==
    /\ C5_Precondition
    /\ MergeSucceeded
    /\ runNo = 1
    /\ failedAt = "createSampleRoutesDirectory"
    /\ existsSync(fs0, GitIgnorePath(cmd))
    /\ fs # fs0

\* C6 as stated: the first augment run completed, the tool is run again on
\* the same project: the second run ends with exit code 1 at the
\* routes-scaffold step.
C6_Precondition ==
    /\ runNo = 2
    /\ prevExit = 0
    /\ Terminated

C6_AsStated ==
    C6_Precondition =>
        /\ exitCode = 1
        /\ failedAt = "createSampleRoutesDirectory"

\* C6 amended: the second run always ends with exit code 1, never at the
\* precondition check, and at the routes-scaffold step unless its install or
\* its manifest merge fails first for an external reason (child process or
\* I/O error).
C6_SecondRunFails ==
    C6_Precondition =>
        /\ exitCode = 1
        /\ pc = "exit"
        /\ failedAt \in {"installDependencies", "addDevServerScript",
                         "createSampleRoutesDirectory"}
        /\ ~external => /\ failedAt = "createSampleRoutesDirectory"
                        /\ InstallSucceeded
                        /\ MergeSucceeded

C6_Witness ==
    /\ C6_Precondition
    /\ failedAt = "createSampleRoutesDirectory"
    /\ ~external

\* C7: the steps start in the workflow's fixed order, a step starts only
\* after every earlier step returned normally, the run is Done with exit
\* code 0 exactly when every step did, and a failing step ends the process
\* with exit code 1 as the last step started.
IsPrefix(a, b) == Len(a) <= Len(b) /\ SubSeq(b, 1, Len(a)) = a
Front(q) == SubSeq(q, 1, Len(q) - 1)
StepNames ==
    {CreateSteps[i] : i \in 1..Len(CreateSteps)}
    \cup {ViteSteps[i] : i \in 1..Len(ViteSteps)}

C7_SequentialFailFast ==
    /\ cmd.kind = "none" => trace = <<>>
    /\ cmd.kind # "none" =>
          /\ IsPrefix(trace, StepsOf(cmd))
          /\ pc \in StepNames => /\ succeeded = trace
                                 /\ pc = StepsOf(cmd)[Len(trace) + 1]
          /\ pc = "done" <=> succeeded = StepsOf(cmd)
    /\ pc = "done" <=> exitCode = 0
    /\ pc = "exit" <=> exitCode = 1
    /\ pc = "exit" <=> failedAt # "none"
    /\ failedAt \in StepNames =>
          /\ trace # <<>>
          /\ trace[Len(trace)] = failedAt
          /\ succeeded = Front(trace)
    /\ failedAt \in {"cli", "precondition"} => trace = <<>>
    /\ Terminated => ~ENABLED (Next /\ trace' # <<>>)

\* an augment run that failed in its third step
C7_Witness ==
    /\ cmd.kind = "ViteIntegration"
    /\ pc = "exit"
    /\ failedAt = "createSampleRoutesDirectory"
    /\ external
    /\ Len(succeeded) = 2

C7_WitnessDone ==
    /\ IsCreate(cmd)
    /\ pc = "done"
    /\ Len(trace) = 4

\* C8: the mode modifier (--existing, or --integration <target>) given
\* together with a positional argument: the process exits with code 1 from
\* the entry point, before any command object is constructed or run, so
\* with no file-system change and no package-manager invocation.
ModifierSupplied(a) ==
    \/ a.entry = "cli" /\ a.existing
    \/ a.entry = "integration" /\ a.integration.set

C8_ModifierWithPositionalRejected ==
    (ModifierSupplied(argv) /\ Len(argv.positionals) >= 1 /\ pc # "cli") =>
        /\ pc = "exit"
        /\ exitCode = 1
        /\ failedAt = "cli"
        /\ cmd.kind = "none"
        /\ fs = fs0
        /\ execaCalls = <<>>

\* the part of C8 the code keeps: --existing, or --integration with a
\* non-empty target
C8_NonEmptyModifierRejected ==
    (/\ ModifierSupplied(argv)
     /\ argv.entry = "integration" => argv.integration.val # ""
     /\ Len(argv.positionals) >= 1
     /\ pc # "cli") =>
        /\ pc = "exit"
        /\ exitCode = 1
        /\ failedAt = "cli"
        /\ cmd.kind = "none"
        /\ fs = fs0
        /\ execaCalls = <<>>

\* C9: getPkgManager is total: "pnpm" for a user agent that starts with
\* "pnpm", "bun" for one that starts with "bun", "npm" for every other value,
\* the empty string and an unset variable included.
C9_DetectorByPrefix ==
    pc = "detected" =>
        LET s == env.val
            pnpm == /\ env.set /\ Len(s) >= 4
                    /\ s[1] = "p" /\ s[2] = "n" /\ s[3] = "p" /\ s[4] = "m"
            bun == /\ env.set /\ Len(s) >= 3
                   /\ s[1] = "b" /\ s[2] = "u" /\ s[3] = "n"
        IN  /\ detected \in {"npm", "pnpm", "bun"}
            /\ pnpm => detected = "pnpm"
            /\ bun => detected = "bun"
            /\ (~pnpm /\ ~bun) => detected = "npm"

C9_Witness ==
    /\ pc = "detected"
    /\ env.val = <<"p", "n", "p", "m">>
    /\ detected = "pnpm"

C9_WitnessFallback ==
    /\ pc = "detected"
    /\ env.val = <<"p", "n", "p", "/">>
    /\ detected = "npm"

\* C10: the install step runs the executable named by the detected package
\* manager with the project root as working directory, and the sub-command
\* and flags it passes are not those it passes for any other manager.
Managers == {"npm", "pnpm", "bun"}

C10_InstallArgsPerManager ==
    \A i \in 1..Len(execaCalls) :
        LET call == execaCalls[i]
            verb == SubSeq(call.args, 1, Len(call.args) - Len(devDeps(cmd)))
        IN  /\ call.file = getPkgManager(env)
            /\ call.cwd = cmd.projectRootDir
            /\ \A other \in Managers \ {call.file} : verb # InstallVerb(other)

\* the part of C10 the code keeps: the executable and the working directory
C10_InstallInProjectRoot ==
    \A i \in 1..Len(execaCalls) :
        /\ execaCalls[i].file = getPkgManager(env)
        /\ execaCalls[i].cwd = cmd.projectRootDir

\* C11 as stated: in every augment-mode run (CreateCommand with --existing,
\* and ViteIntegration) the packages passed to the install are the four of
\* create mode and also "concurrently"; in create mode they are exactly the
\* four.
Range(q) == {q[i] : i \in 1..Len(q)}
FourPackages ==
    {"typescript", "@types/node", "@endpts/types", "@endpts/devtools"}

\* the arguments after the sub-command and its flag
PackagesOf(call) == Range(SubSeq(call.args, 3, Len(call.args)))

C11_AugmentInstallsHelper ==
    \A i \in 1..Len(execaCalls) :
        /\ IsAugment(cmd) =>
              PackagesOf(execaCalls[i]) = FourPackages \cup {"concurrently"}
        /\ IsCreate(cmd) => PackagesOf(execaCalls[i]) = FourPackages

\* C11 amended: the install of ViteIntegration is passed the four packages
\* and "concurrently"; the install of CreateCommand is passed exactly the
\* four, with --existing as well as in create mode.
C11_HelperOnlyForVite ==
    \A i \in 1..Len(execaCalls) :
        LET call == execaCalls[i]
        IN  /\ SubSeq(call.args, 1, 2) = <<"install", "--D">>
            /\ Len(call.args) = 2 + Cardinality(PackagesOf(call))
            /\ cmd.kind = "ViteIntegration" =>
                  PackagesOf(call) = FourPackages \cup {"concurrently"}
            /\ cmd.kind = "CreateCommand" => PackagesOf(call) = FourPackages

C11_Witness ==
    /\ cmd.kind = "ViteIntegration"
    /\ Len(execaCalls) = 1
    /\ "concurrently" \in PackagesOf(execaCalls[1])
    /\ pc = "done"

C11_WitnessExisting ==
    /\ cmd.kind = "CreateCommand"
    /\ cmd.existing
    /\ Len(execaCalls) = 1
    /\ pc = "done"

\* C12: every file-system failure raised inside a step, the directory
\* listing of a create-mode target that is a regular file included, is
\* caught by that step, which reports the failure and ends the process with
\* exit code 1: no file-system error leaves a step as an unhandled
\* exception.
C12_StepFailuresCaught ==
    (pc = "exit" /\ failedAt \in StepNames) =>
        /\ exitCode = 1
        /\ ~uncaught

\* the part of C12 the code keeps: every failure but the listing of a target
\* that is a regular file
C12_CaughtUnlessTargetIsFile ==
    (/\ pc = "exit"
     /\ failedAt \in StepNames
     /\ ~(IsCreate(cmd) /\ IsFile(fs0, Root))) =>
        /\ exitCode = 1
        /\ ~uncaught

C12_TargetIsFileEscapes ==
    /\ IsCreate(cmd)
    /\ IsFile(fs0, Root)
    /\ pc = "exit"
    /\ failedAt = "createProjectDir"
    /\ uncaught
    /\ fs = fs0

\* C13: the environment-file step of ViteIntegration, for every subset of
\* .env, .env.local, .env.development, .env.development.local present in
\* the root: the entry is appended to exactly one file, the first candidate
\* present in that order, and nothing else changes; with none present a new
\* .env holding the entry is created and nothing else is.  (A step that
\* fails changes nothing.)
EnvPath(i) == join(Root, EnvCandidates[i])
EnvPresent(f) == {i \in 1..Len(EnvCandidates) : EnvPath(i) \in DOMAIN f}
IsFirstPresent(f, i) ==
    /\ i \in EnvPresent(f)
    /\ \A j \in 1..(i - 1) : j \notin EnvPresent(f)

C13_EnvStep ==
    /\ pc' = "done" /\ EnvPresent(fs) = {} =>
          /\ DOMAIN fs' = DOMAIN fs \cup {join(Root, ".env")}
          /\ fs'[join(Root, ".env")] = TextFile(<<EnvCreateText>>)
          /\ \A p \in DOMAIN fs : fs'[p] = fs[p]
    /\ pc' = "done" /\ EnvPresent(fs) # {} =>
          /\ DOMAIN fs' = DOMAIN fs
          /\ \A i \in EnvPresent(fs) :
                IF IsFirstPresent(fs, i)
                THEN fs'[EnvPath(i)] =
                        TextFile(fs[EnvPath(i)].chunks \o <<EnvAppendText>>)
                ELSE fs'[EnvPath(i)] = fs[EnvPath(i)]
          /\ \A p \in DOMAIN fs \ {EnvPath(i) : i \in EnvPresent(fs)} :
                fs'[p] = fs[p]
    /\ pc' # "done" => fs' = fs

C13_EnvEntryInFirstCandidate == [][pc = "addEnvVars" => C13_EnvStep]_vars

\* the step has appended to .env.local, the first of three files present
C13_Witness ==
    /\ cmd.kind = "ViteIntegration"
    /\ pc = "done"
    /\ EnvPresent(fs0) = {2, 3, 4}
    /\ fs[EnvPath(2)].chunks = fs0[EnvPath(2)].chunks \o <<EnvAppendText>>
    /\ fs[EnvPath(3)] = fs0[EnvPath(3)]

\* the step has created .env where no candidate was present
C13_WitnessCreated ==
    /\ cmd.kind = "ViteIntegration"
    /\ pc = "done"
    /\ EnvPresent(fs0) = {}
    /\ fs[EnvPath(1)] = TextFile(<<EnvCreateText>>)
    /\ EnvPresent(fs) = {1}

\* C14: over any sequence of augment-mode runs against one project, with the
\* tool as the only writer: the ignore block is appended to .gitignore at
\* most once in total, only to a .gitignore that already exists (the step
\* never creates the file), and only in a run whose routes-scaffold step
\* succeeded.
GitIgnoreOfCwd == <<".gitignore">>

\* how many times the block stands in .gitignore
BlockCount(f) ==
    IF IsFile(f, GitIgnoreOfCwd)
    THEN Cardinality({i \in 1..Len(f[GitIgnoreOfCwd].chunks) :
                         f[GitIgnoreOfCwd].chunks[i] = GitIgnoreBlock})
    ELSE 0

C14_IgnoreBlockAtMostOnce ==
    AugmentInvocation(argv) =>
        /\ BlockCount(fs) <= 1
        /\ existsSync(fs, GitIgnoreOfCwd) <=> existsSync(fs0, GitIgnoreOfCwd)
        /\ BlockCount(fs) # BlockCount(fs0) =>
              /\ BlockCount(fs0) = 0
              /\ existsSync(fs0, GitIgnoreOfCwd)
              /\ \E i \in 1..Len(succeeded) :
                    succeeded[i] = "createSampleRoutesDirectory"
        /\ existsSync(fs, GitIgnoreOfCwd) /\ BlockCount(fs) = BlockCount(fs0) =>
              fs[GitIgnoreOfCwd] = fs0[GitIgnoreOfCwd]

\* the block was appended by the first run and the second run has ended
C14_Witness ==
    /\ AugmentInvocation(argv)
    /\ runNo = 2
    /\ Terminated
    /\ BlockCount(fs) = 1
    /\ BlockCount(fs0) = 1

\* a run that succeeded in a project without .gitignore
C14_WitnessNoFile ==
    /\ AugmentInvocation(argv)
    /\ pc = "done"
    /\ ~existsSync(fs, GitIgnoreOfCwd)

\* a first run whose routes-scaffold step failed half-way, then a second run
C14_WitnessAfterFailure ==
    /\ AugmentInvocation(argv)
    /\ runNo = 2
    /\ prevExit = 1
    /\ Terminated
    /\ existsSync(fs, GitIgnoreOfCwd)
    /\ existsSync(fs, <<"routes">>)
    /\ ~existsSync(fs, <<"routes", "index.ts">>)
    /\ BlockCount(fs) = 0

====
